---- MODULE Spec2Model ----
(***************************************************************************)
(* The OpenAI status tracker: change detection, polling loop, validators,  *)
(* log buffer and event stream.                                            *)
(*                                                                         *)
(* src/OpenAI_status.py: StatusPageMonitor (fetch, process_summary,        *)
(* process_incidents, get_interval, poll, run).                            *)
(* src/server.py: poll_loop, which inlines the same diff (lines 65-102)    *)
(* and the same interval rule (lines 113-114) and is translated here on    *)
(* its own (the Sv operators); push_log and sse_handler.                   *)
(*                                                                         *)
(* JSON objects are functions from field names to values, so that a        *)
(* missing field is a name outside DOMAIN; JSON arrays are sequences.      *)
(* Strings that the code compares (created_at) are sequences of character  *)
(* codes, compared as Python compares str.  All created_at values share    *)
(* the date prefix "2024-01-01T", which is left out: the comparison of two *)
(* such strings is the comparison of what follows the prefix, and instants *)
(* are milliseconds from that day's midnight UTC.                          *)
(***************************************************************************)
EXTENDS Integers, Sequences, FiniteSets, TLC

VARIABLES
    interval,            \* self.interval: None or the fixed interval
    known_incidents,     \* self.known_incidents: id -> record
    component_statuses,  \* self.component_statuses: id -> status
    component_names,     \* self.component_names: id -> name
    first_run,           \* self.first_run
    running,             \* self.running
    pc,                  \* where the driving task is
    resp,                \* the argument of the call in progress / the response in flight
    suppress_arg,        \* the suppress argument of the last process_incidents call
    events,              \* the change events emitted by the operation in progress / last finished
    exc,                 \* the exception the last operation raised, "none" if it returned
    created,             \* ids that had no record before the last operation and have one after it
    sleep_for,           \* the value of get_interval() handed to asyncio.sleep
    summary_etag,        \* self.summary_etag: None or the stored ETag
    summary_modified,    \* self.summary_modified
    incidents_etag,      \* self.incidents_etag
    incidents_modified,  \* self.incidents_modified
    req_headers,         \* the headers of the request in flight
    got_payload,         \* history: process_incidents has been called by poll before
    reported,            \* history: the <<incident id, update id>> pairs reported so far
    \* src/server.py, poll_loop
    sv_pc,               \* where poll_loop is
    sv_summary,          \* poll_loop's local "summary", held across the second fetch
    sv_known,            \* server.py's known_incidents: id -> [status, seen]
    sv_components,       \* server.py's component_statuses: id -> status
    sv_first_run,        \* server.py's first_run
    sv_events,           \* the change events poll_loop handed to push_log in this iteration
    sv_sleep,            \* the delay poll_loop handed to asyncio.sleep
    \* src/server.py, push_log and sse_handler
    log_lines,           \* log_lines; line k is the k-th line pushed
    clients,             \* clients: the registered queues, named by their subscriber
    pushed,              \* history: the number of lines pushed so far
    sse_pc,              \* subscriber -> where its sse_handler is
    sse_idx,             \* subscriber -> the index of the list iterator of the replay loop
    queues,              \* subscriber -> the content of its asyncio.Queue
    received             \* history: subscriber -> the lines written to its response

fetchVars == <<summary_etag, summary_modified, incidents_etag, incidents_modified,
               req_headers>>

historyVars == <<got_payload, reported>>

pollLoopVars == <<sv_pc, sv_summary, sv_known, sv_components, sv_first_run, sv_events,
                  sv_sleep>>

streamVars == <<log_lines, clients, pushed, sse_pc, sse_idx, queues, received>>

serverSide == <<pollLoopVars, streamVars>>

cliSide == <<interval, known_incidents, component_statuses, component_names, first_run,
            running, pc, resp, suppress_arg, events, exc, created, sleep_for,
            fetchVars, historyVars>>

vars == <<cliSide, serverSide>>

-----------------------------------------------------------------------------
(* Bounds and input domains *)

MaxUpdates == 3
MaxPollUpdates == 2
MaxStreamPushes == 3
MaxLogPushes == 502

UpdateIds == 1..MaxUpdates
IncidentIds == {"i1", "i2"}
ComponentIds == {"c1", "c2"}
ComponentStatusValues == {"operational", "major_outage"}
IncidentStatusValues == {"investigating", "resolved", "postmortem"}
UpdatedAtValues == {"t1", "t2"}

\* Optional[int]: None is <<>>, the integer n is <<n>>
NoInterval == <<>>
FixedIntervals == {0, 30}

None == "None"
Subscribers == {"s1", "s2"}
NoData == [kind |-> "none"]

CALM_INTERVAL == 60
ACTIVE_INTERVAL == 15

\* server.py: "if len(log_lines) > 500"
LOG_LIMIT == 500

-----------------------------------------------------------------------------
(* Python dict / list helpers *)

Get(d, k, dflt) == IF k \in DOMAIN d THEN d[k] ELSE dflt

Put(f, k, v) == [x \in (DOMAIN f) \cup {k} |-> IF x = k THEN v ELSE f[x]]

EmptyDict == [x \in {} |-> None]

-----------------------------------------------------------------------------
(* created_at strings: str comparison and datetime.fromisoformat *)

RECURSIVE StrLessFrom(_, _, _)
StrLessFrom(a, b, k) ==
    IF k > Len(a) THEN k <= Len(b)
    ELSE IF k > Len(b) THEN FALSE
    ELSE IF a[k] # b[k] THEN a[k] < b[k]
    ELSE StrLessFrom(a, b, k + 1)

\* a < b for two Python str values (code point order, a proper prefix is smaller)
StrLess(a, b) == StrLessFrom(a, b, 1)

\* ts.replace("Z", "+00:00") for a string whose only "Z" is its last character
ReplaceZ(s) ==
    IF s # <<>> /\ s[Len(s)] = 90
    THEN SubSeq(s, 1, Len(s) - 1) \o <<43, 48, 48, 58, 48, 48>>
    ELSE s

IsDigit(c) == c \in 48..57
Num2(t, k) == (t[k] - 48) * 10 + (t[k + 1] - 48)
HasFrac(t) == Len(t) >= 12 /\ t[9] = 46
ZoneAt(t) == IF HasFrac(t) THEN 13 ELSE 9

\* datetime.fromisoformat accepts "HH:MM:SS[.fff](+|-)HH:MM" after the date;
\* anything else met here (the empty string of a missing created_at) is a ValueError
IsoValid(t) ==
    /\ Len(t) = ZoneAt(t) + 5
    /\ \A k \in {1, 2, 4, 5, 7, 8} : IsDigit(t[k])
    /\ t[3] = 58 /\ t[6] = 58
    /\ HasFrac(t) => \A k \in 10..12 : IsDigit(t[k])
    /\ t[ZoneAt(t)] \in {43, 45}
    /\ \A k \in {ZoneAt(t) + 1, ZoneAt(t) + 2, ZoneAt(t) + 4, ZoneAt(t) + 5} : IsDigit(t[k])
    /\ t[ZoneAt(t) + 3] = 58

FracMs(t) == IF HasFrac(t) THEN 100 * (t[10] - 48) + 10 * (t[11] - 48) + (t[12] - 48) ELSE 0

OffsetMin(t) ==
    LET z == ZoneAt(t)
        m == Num2(t, z + 1) * 60 + Num2(t, z + 4)
    IN IF t[z] = 45 THEN 0 - m ELSE m

Instant(t) ==
    ((Num2(t, 1) * 60 + Num2(t, 4)) * 60 + Num2(t, 7)) * 1000 + FracMs(t)
        - OffsetMin(t) * 60000

\* parse_ts: raises ValueError iff ~ParseOk(ts), else the instant
ParseOk(ts) == IsoValid(ReplaceZ(ts))
parse_ts(ts) == Instant(ReplaceZ(ts))

-----------------------------------------------------------------------------
(* sorted(new_updates, key=created_at, reverse=True): stable, equal keys keep
   their order of delivery *)

CreatedKey(u) == Get(u, "created_at", <<>>)

\* u goes before the first element whose key is smaller than its own
InsertDesc(sorted, u) ==
    LET smaller == {k \in 1..Len(sorted) : StrLess(CreatedKey(sorted[k]), CreatedKey(u))}
        pos == IF smaller = {} THEN Len(sorted) + 1
               ELSE CHOOSE k \in smaller : \A j \in smaller : k <= j
    IN SubSeq(sorted, 1, pos - 1) \o <<u>> \o SubSeq(sorted, pos, Len(sorted))

RECURSIVE SortDescFrom(_, _, _)
SortDescFrom(sorted, s, k) ==
    IF k > Len(s) THEN sorted
    ELSE SortDescFrom(InsertDesc(sorted, s[k]), s, k + 1)

SortedByCreatedDesc(s) == SortDescFrom(<<>>, s, 1)

-----------------------------------------------------------------------------
(* Change events *)

ComponentStatusChanged(cid, name, old, new) ==
    [kind |-> "ComponentStatusChanged", id |-> cid, name |-> name, old |-> old, new |-> new]

IncidentOpened(iid, name, impact, status, body) ==
    [kind |-> "IncidentOpened", id |-> iid, name |-> name, impact |-> impact,
     status |-> status, body |-> body]

IncidentUpdated(iid, name, uid, status, body, created_at) ==
    [kind |-> "IncidentUpdated", id |-> iid, name |-> name, uid |-> uid,
     status |-> status, body |-> body, created_at |-> created_at]

-----------------------------------------------------------------------------
(* StatusPageMonitor.process_summary *)

\* mutants of StatusChanged: the None test dropped / the comparison dropped
StatusChangedNoNoneTest(old, new) == old # new
StatusChangedAlways(old, new) == old # None

\* "old is not None and old != status"
StatusChanged(old, new) == old # None /\ old # new

\* one iteration of the for loop; st = [statuses, names, events, changes, exc]
ProcessComponent(st, comp) ==
    IF ~({"id", "name", "status"} \subseteq DOMAIN comp)
    THEN [st EXCEPT !.exc = "KeyError"]
    ELSE LET cid == comp.id
             known == cid \in DOMAIN st.statuses
             old == IF known THEN st.statuses[cid] ELSE None
             changed == StatusChanged(old, comp.status)
         IN [st EXCEPT
               !.names = Put(@, cid, comp.name),
               !.events = IF changed
                          THEN Append(@, ComponentStatusChanged(cid, comp.name, old, comp.status))
                          ELSE @,
               !.changes = @ \/ changed,
               !.statuses = Put(@, cid, comp.status)]

RECURSIVE ProcessComponentsFrom(_, _, _)
ProcessComponentsFrom(st, comps, k) ==
    IF k > Len(comps) \/ st.exc # "none" THEN st
    ELSE ProcessComponentsFrom(ProcessComponent(st, comps[k]), comps, k + 1)

process_summary(statuses, names, data) ==
    ProcessComponentsFrom(
        [statuses |-> statuses, names |-> names, events |-> <<>>,
         changes |-> FALSE, exc |-> "none"],
        Get(data, "components", <<>>), 1)

-----------------------------------------------------------------------------
(* StatusPageMonitor.process_incidents *)

UpdateIdSet(updates) == {updates[k].id : k \in 1..Len(updates)}

\* mutant of FirstBody: the chronologically first (last delivered) update's body
LastBody(updates) == IF updates # <<>> THEN Get(updates[Len(updates)], "body", "") ELSE ""

\* "updates[0].get("body", "") if updates else """
FirstBody(updates) == IF updates # <<>> THEN Get(updates[1], "body", "") ELSE ""

\* mutant of NewRecord: the delivered update ids are not recorded as seen
NewRecordNothingSeen(inc, update_ids) ==
    [updated_at |-> Get(inc, "updated_at", ""),
     status |-> Get(inc, "status", ""),
     seen_update_ids |-> {}]

\* the record stored for an incident seen for the first time
NewRecord(inc, update_ids) ==
    [updated_at |-> Get(inc, "updated_at", ""),
     status |-> Get(inc, "status", ""),
     seen_update_ids |-> update_ids]

\* mutant of RefreshedRecord: the stored status is not refreshed
RefreshedRecordStaleStatus(known, inc, update_ids) ==
    [updated_at |-> Get(inc, "updated_at", ""),
     status |-> known.status,
     seen_update_ids |-> update_ids]

\* the record stored for a known incident that delivered new update ids
RefreshedRecord(known, inc, update_ids) ==
    [updated_at |-> Get(inc, "updated_at", ""),
     status |-> Get(inc, "status", ""),
     seen_update_ids |-> update_ids]

\* the body of the for loop over new_updates, for one update
RECURSIVE EmitUpdatesFrom(_, _, _, _)
EmitUpdatesFrom(st, inc, new_updates, k) ==
    IF k > Len(new_updates) \/ st.exc # "none" THEN st
    ELSE LET upd == new_updates[k] IN
         IF ~ParseOk(Get(upd, "created_at", <<>>))
         THEN [st EXCEPT !.exc = "ValueError"]
         ELSE IF "name" \notin DOMAIN inc
         THEN [st EXCEPT !.exc = "KeyError"]
         ELSE EmitUpdatesFrom(
                 [st EXCEPT !.events = Append(@, IncidentUpdated(inc.id, inc.name, upd.id,
                                                    Get(upd, "status", "unknown"),
                                                    Get(upd, "body", ""),
                                                    upd.created_at)),
                            !.changes = TRUE],
                 inc, new_updates, k + 1)

\* mutant of ShouldRefresh: the record is refreshed on every delivery
ShouldRefreshAlways(new_ids) == TRUE

\* "if new_ids:"
ShouldRefresh(new_ids) == new_ids # {}

\* one iteration of the for loop over incidents; st = [known, events, changes, exc]
ProcessIncident(st, inc, suppress) ==
    IF "id" \notin DOMAIN inc THEN [st EXCEPT !.exc = "KeyError"]
    ELSE
    LET iid == inc.id
        updates == Get(inc, "incident_updates", <<>>)
    IN
    IF \E k \in 1..Len(updates) : "id" \notin DOMAIN updates[k]
    THEN [st EXCEPT !.exc = "KeyError"]
    ELSE
    LET update_ids == UpdateIdSet(updates) IN
    IF iid \notin DOMAIN st.known
    THEN LET st1 == [st EXCEPT !.known = Put(@, iid, NewRecord(inc, update_ids))] IN
         IF suppress THEN st1
         ELSE IF "name" \notin DOMAIN inc THEN [st1 EXCEPT !.exc = "KeyError"]
         ELSE [st1 EXCEPT
                 !.events = Append(@, IncidentOpened(iid, inc.name,
                                Get(inc, "impact", "none"),
                                Get(inc, "status", "unknown"),
                                FirstBody(updates))),
                 !.changes = TRUE]
    ELSE LET known == st.known[iid]
             new_ids == update_ids \ known.seen_update_ids
         IN
         IF ~ShouldRefresh(new_ids) THEN st
         ELSE LET new_updates ==
                      SortedByCreatedDesc(SelectSeq(updates, LAMBDA u : u.id \in new_ids))
                  st1 == EmitUpdatesFrom(st, inc, new_updates, 1)
              IN IF st1.exc # "none" THEN st1
                 ELSE [st1 EXCEPT !.known = Put(@, iid, RefreshedRecord(known, inc, update_ids))]

RECURSIVE ProcessIncidentsFrom(_, _, _, _)
ProcessIncidentsFrom(st, incs, suppress, k) ==
    IF k > Len(incs) \/ st.exc # "none" THEN st
    ELSE ProcessIncidentsFrom(ProcessIncident(st, incs[k], suppress), incs, suppress, k + 1)

process_incidents(known, data, suppress) ==
    ProcessIncidentsFrom(
        [known |-> known, events |-> <<>>, changes |-> FALSE, exc |-> "none"],
        Get(data, "incidents", <<>>), suppress, 1)

-----------------------------------------------------------------------------
(* StatusPageMonitor.get_interval *)

IsActive(rec) == rec.status \notin {"resolved", "postmortem"}

\* mutant of get_interval: "if self.interval:", which takes a fixed interval of 0 for None
get_interval_truthy(fixed, known) ==
    IF fixed # NoInterval /\ fixed[1] # 0 THEN fixed[1]
    ELSE IF \E i \in DOMAIN known : IsActive(known[i]) THEN ACTIVE_INTERVAL
    ELSE CALM_INTERVAL

get_interval(fixed, known) ==
    IF fixed # NoInterval THEN fixed[1]
    ELSE IF \E i \in DOMAIN known : IsActive(known[i]) THEN ACTIVE_INTERVAL
    ELSE CALM_INTERVAL

-----------------------------------------------------------------------------
(* The payloads the model feeds the engine.  An update's status, body and
   created_at are those of its id; ids are unique within a payload, as in
   the upstream API. *)

UpdateStatus(u) == CASE u = 1 -> "investigating" [] u = 2 -> "monitoring" [] OTHER -> "resolved"
UpdateBody(u) == CASE u = 1 -> "b1" [] u = 2 -> "" [] u = 3 -> "b3" [] OTHER -> "b4"
UpdateCreatedAt(u) ==
    CASE u = 1 -> <<48,48,58,48,48,58,48,48,90>>                    \* 00:00:00Z
      [] u = 2 -> <<48,49,58,48,48,58,48,48,90>>                    \* 01:00:00Z
      [] u = 3 -> <<48,48,58,51,48,58,48,48,43,48,49,58,48,48>>     \* 00:30:00+01:00
      [] OTHER -> <<48,48,58,48,48,58,48,48,46,53,48,48,90>>        \* 00:00:00.500Z

Update(u) ==
    [id |-> u, status |-> UpdateStatus(u), body |-> UpdateBody(u),
     created_at |-> UpdateCreatedAt(u)]

IncidentName(i) == IF i = "i1" THEN "API errors" ELSE "Login failures"
IncidentImpact(i) == IF i = "i1" THEN "major" ELSE "minor"

Incident(i, status, updated_at, ulist) ==
    [id |-> i, name |-> IncidentName(i), impact |-> IncidentImpact(i),
     status |-> status, updated_at |-> updated_at,
     incident_updates |-> [k \in 1..Len(ulist) |-> Update(ulist[k])]]

\* the sequences of at most n distinct elements of S
DistinctSeqs(S, n) ==
    UNION {{s \in [1..k -> S] : \A a, b \in 1..k : a # b => s[a] # s[b]} : k \in 0..n}

IncidentsOver(ids, ulists, ats) ==
    {Incident(i, st, at, ul) : i \in ids, st \in IncidentStatusValues,
                               at \in ats, ul \in ulists}

\* incidents payloads: at most n incidents, of distinct ids
IncidentPayloads(ids, n, ulists, ats) ==
    {[incidents |-> s] :
        s \in {t \in UNION {[1..k -> IncidentsOver(ids, ulists, ats)] : k \in 0..n} :
                 \A a, b \in 1..Len(t) : a # b => t[a].id # t[b].id}}


Component(c, name, status) == [id |-> c, name |-> name, status |-> status]

ComponentsOver(ids, names) ==
    {Component(c, nm, st) : c \in ids, nm \in names, st \in ComponentStatusValues}

SummaryPayloads(ids, n, names) ==
    {[components |-> s] :
        s \in {t \in UNION {[1..k -> ComponentsOver(ids, names)] : k \in 0..n} :
                 \A a, b \in 1..Len(t) : a # b => t[a].id # t[b].id}}

-----------------------------------------------------------------------------
(* State machine *)

InitWith(iv) ==
    /\ interval = iv
    /\ known_incidents = EmptyDict
    /\ component_statuses = EmptyDict
    /\ component_names = EmptyDict
    /\ first_run = TRUE
    /\ running = TRUE
    /\ pc = "idle"
    /\ resp = NoData
    /\ suppress_arg = FALSE
    /\ events = <<>>
    /\ exc = "none"
    /\ created = {}
    /\ sleep_for = 0
    /\ summary_etag = None
    /\ summary_modified = None
    /\ incidents_etag = None
    /\ incidents_modified = None
    /\ req_headers = EmptyDict
    /\ got_payload = FALSE
    /\ reported = {}
    /\ sv_pc = "idle"
    /\ sv_summary = NoData
    /\ sv_known = EmptyDict
    /\ sv_components = EmptyDict
    /\ sv_first_run = TRUE
    /\ sv_events = <<>>
    /\ sv_sleep = 0
    /\ log_lines = <<>>
    /\ clients = <<>>
    /\ pushed = 0
    /\ sse_pc = [s \in Subscribers |-> "none"]
    /\ sse_idx = [s \in Subscribers |-> 0]
    /\ queues = [s \in Subscribers |-> <<>>]
    /\ received = [s \in Subscribers |-> <<>>]

\* StatusPageMonitor.__init__ with interval=None
InitAdaptive == InitWith(NoInterval)

monitorVars == <<interval, first_run, running, sleep_for>>

(* process_incidents called directly: any payload, any suppress *)

EngineIncidentPayloads ==
    IncidentPayloads({"i1"}, 1, DistinctSeqs(UpdateIds, MaxUpdates), UpdatedAtValues)

CallProcessIncidents(data, s) ==
    /\ pc = "idle"
    /\ pc' = "process_incidents"
    /\ resp' = data
    /\ suppress_arg' = s
    /\ events' = <<>>
    /\ exc' = "none"
    /\ created' = {}
    /\ sleep_for' = 0
    /\ UNCHANGED <<known_incidents, component_statuses, component_names,
                   interval, first_run, running, fetchVars, historyVars, serverSide>>

ProcessIncidentsReturns ==
    /\ pc = "process_incidents"
    /\ LET r == process_incidents(known_incidents, resp, suppress_arg) IN
         /\ known_incidents' = r.known
         /\ events' = r.events
         /\ exc' = r.exc
         /\ created' = (DOMAIN r.known) \ (DOMAIN known_incidents)
    /\ pc' = "idle"
    /\ resp' = NoData
    /\ UNCHANGED <<suppress_arg, component_statuses, component_names, monitorVars,
                   fetchVars, got_payload, serverSide>>

ReturnProcessIncidents == ProcessIncidentsReturns /\ UNCHANGED reported

NextIncidents ==
    \/ \E data \in EngineIncidentPayloads, s \in BOOLEAN : CallProcessIncidents(data, s)
    \/ ReturnProcessIncidents

SpecIncidents == InitAdaptive /\ [][NextIncidents]_vars

(* the same, with the history of the reported updates kept *)

ReportedBy(evs) ==
    {<<evs[k].id, evs[k].uid>> : k \in {j \in 1..Len(evs) : evs[j].kind = "IncidentUpdated"}}

ReturnProcessIncidentsRecorded ==
    /\ ProcessIncidentsReturns
    /\ reported' = reported \cup ReportedBy(events')

NextHistory ==
    \/ \E data \in EngineIncidentPayloads, s \in BOOLEAN : CallProcessIncidents(data, s)
    \/ ReturnProcessIncidentsRecorded

SpecHistory == InitAdaptive /\ [][NextHistory]_vars

(* get_interval called directly, between calls of process_incidents, with the
   fixed interval unset or set *)

IntervalIncidentPayloads ==
    IncidentPayloads(IncidentIds, 2, {<<u>> : u \in 1..MaxPollUpdates}, {"t1"})

InitAnyInterval == \E iv \in {NoInterval} \cup {<<n>> : n \in FixedIntervals} : InitWith(iv)

CallGetInterval ==
    /\ pc = "idle"
    /\ sleep_for' = get_interval(interval, known_incidents)
    /\ UNCHANGED <<pc, resp, suppress_arg, events, exc, created, known_incidents,
                   component_statuses, component_names, interval, first_run, running,
                   fetchVars, historyVars, serverSide>>

NextInterval ==
    \/ \E data \in IntervalIncidentPayloads, s \in BOOLEAN : CallProcessIncidents(data, s)
    \/ ReturnProcessIncidents
    \/ CallGetInterval

SpecInterval == InitAnyInterval /\ [][NextInterval]_vars

(* process_summary called directly *)

EngineSummaryPayloads == SummaryPayloads(ComponentIds, 2, {"API", "ChatGPT"})

CallProcessSummary(data) ==
    /\ pc = "idle"
    /\ pc' = "process_summary"
    /\ resp' = data
    /\ events' = <<>>
    /\ exc' = "none"
    /\ created' = {}
    /\ sleep_for' = 0
    /\ UNCHANGED <<suppress_arg, known_incidents, component_statuses, component_names,
                   interval, first_run, running, fetchVars, historyVars, serverSide>>

ReturnProcessSummary ==
    /\ pc = "process_summary"
    /\ LET r == process_summary(component_statuses, component_names, resp) IN
         /\ component_statuses' = r.statuses
         /\ component_names' = r.names
         /\ events' = r.events
         /\ exc' = r.exc
         /\ created' = (DOMAIN r.statuses) \ (DOMAIN component_statuses)
    /\ pc' = "idle"
    /\ resp' = NoData
    /\ UNCHANGED <<suppress_arg, known_incidents, monitorVars, fetchVars, historyVars,
                   serverSide>>

NextSummary ==
    \/ \E data \in EngineSummaryPayloads : CallProcessSummary(data)
    \/ ReturnProcessSummary

SpecSummary == InitAdaptive /\ [][NextSummary]_vars

-----------------------------------------------------------------------------
(* StatusPageMonitor.fetch, poll and run: the polling loop.  pc follows the task
   through its awaits: fetch_summary / fetch_incidents while a request is in flight,
   got_summary / got_incidents once the response is there, poll_done when poll
   has returned or raised into run, sleeping inside asyncio.sleep. *)

\* what the upstream answers: a status, a JSON body and the validator headers
Response(status, body, headers) ==
    [kind |-> "response", status |-> status, body |-> body, headers |-> headers]

\* asyncio.TimeoutError or aiohttp.ClientError raised by session.get
TransportError == [kind |-> "error"]

NoHeaders == EmptyDict

\* Python's "x or y" on Optional[str]
PyOr(x, y) == IF x # None /\ x # "" THEN x ELSE y

\* the request headers fetch builds from the stored validators
ConditionalHeaders(etag, modified) ==
    [h \in (IF etag # None /\ etag # "" THEN {"If-None-Match"} ELSE {})
           \cup (IF modified # None /\ modified # "" THEN {"If-Modified-Since"} ELSE {})
       |-> IF h = "If-None-Match" THEN etag ELSE modified]

\* what fetch returns to poll: (status, data, etag, modified)
FetchResult(status, data, etag, modified) ==
    [status |-> status, data |-> data, etag |-> etag, modified |-> modified]

\* mutant of fetch: the body is returned as a 200 whatever the status is, 304 apart
fetch_ignores_status(r, etag, modified) ==
    IF r.kind = "error" THEN FetchResult(0, NoData, etag, modified)
    ELSE IF r.status = 304 THEN FetchResult(304, NoData, etag, modified)
    ELSE FetchResult(200, r.body, PyOr(Get(r.headers, "ETag", None), etag),
                     PyOr(Get(r.headers, "Last-Modified", None), modified))

\* mutant of fetch: a 304 returns the validators of its own headers
fetch_revalidates_on_304(r, etag, modified) ==
    IF r.kind = "error" THEN FetchResult(0, NoData, etag, modified)
    ELSE LET new_etag == PyOr(Get(r.headers, "ETag", None), etag)
             new_modified == PyOr(Get(r.headers, "Last-Modified", None), modified)
         IN IF r.status = 304 THEN FetchResult(304, NoData, new_etag, new_modified)
            ELSE IF r.status = 200 THEN FetchResult(200, r.body, new_etag, new_modified)
            ELSE FetchResult(r.status, NoData, etag, modified)

\* fetch, from the response (or the exception) of session.get to its return
fetch(r, etag, modified) ==
    IF r.kind = "error" THEN FetchResult(0, NoData, etag, modified)
    ELSE LET new_etag == PyOr(Get(r.headers, "ETag", None), etag)
             new_modified == PyOr(Get(r.headers, "Last-Modified", None), modified)
         IN IF r.status = 304 THEN FetchResult(304, NoData, etag, modified)
            ELSE IF r.status = 200 THEN FetchResult(200, r.body, new_etag, new_modified)
            ELSE FetchResult(r.status, NoData, etag, modified)

\* "status == 200 and data": None and the empty object are falsy
Truthy(data) == data # NoData /\ data # EmptyDict

\* answers that are not a 200: not modified, a server error whose body is a
\* well-formed document, a transport error
SummaryFailures ==
    {Response(304, NoData, NoHeaders),
     Response(500, [components |-> <<Component("c1", "API", "major_outage")>>], NoHeaders),
     TransportError}

IncidentsFailures ==
    {Response(304, NoData, NoHeaders),
     Response(500, [incidents |-> <<Incident("i1", "investigating", "t1", <<1>>)>>],
              NoHeaders),
     TransportError}

\* payloads with a missing field
ComponentWithoutName == [components |-> <<[id |-> "c1", status |-> "operational"]>>]
IncidentWithoutName ==
    [incidents |-> <<[id |-> "i2", impact |-> "minor", status |-> "investigating",
                      updated_at |-> "t1", incident_updates |-> <<Update(1)>>]>>]
UpdateWithoutCreatedAt ==
    [incidents |-> <<[id |-> "i1", name |-> "API errors", impact |-> "major",
                      status |-> "investigating", updated_at |-> "t1",
                      incident_updates |-> <<[id |-> 2, status |-> "monitoring",
                                              body |-> "b2"]>>]>>]

PollSummaryResults ==
    {Response(200, d, NoHeaders) : d \in SummaryPayloads({"c1"}, 1, {"API"})
                                           \cup {ComponentWithoutName, EmptyDict}}
        \cup SummaryFailures

\* in the loop every incident is delivered with one update, and i1 before i2
PollIncidentPayloads ==
    {p \in IncidentPayloads(IncidentIds, 2, {<<u>> : u \in 1..MaxPollUpdates}, {"t1"}) :
        Len(p.incidents) = 2 => p.incidents[1].id = "i1"}

PollIncidentsResults ==
    {Response(200, d, NoHeaders) : d \in PollIncidentPayloads
                                     \cup {IncidentWithoutName, UpdateWithoutCreatedAt,
                                           EmptyDict}}
        \cup IncidentsFailures

\* main without --interval: StatusPageMonitor(interval=None)
Init == InitAdaptive

engineVars == <<known_incidents, component_statuses, component_names>>

validators == <<summary_etag, summary_modified, incidents_etag, incidents_modified>>

\* run: "while self.running" holds; poll calls fetch, which sends the summary request
StartPoll ==
    /\ pc \in {"idle", "sleeping"}
    /\ running
    /\ pc' = "fetch_summary"
    /\ req_headers' = ConditionalHeaders(summary_etag, summary_modified)
    /\ events' = <<>>
    /\ exc' = "none"
    /\ created' = {}
    /\ sleep_for' = 0
    /\ UNCHANGED <<resp, suppress_arg, engineVars, interval, first_run, running,
                   validators, historyVars, serverSide>>

\* mutant of ExitLoop: the loop ends whether or not stop was called
ExitLoopAlways ==
    /\ pc \in {"idle", "sleeping"}
    /\ pc' = "stopped"
    /\ UNCHANGED <<resp, suppress_arg, events, exc, created, engineVars, monitorVars,
                   fetchVars, historyVars, serverSide>>

\* run: "while self.running" fails, the loop ends
ExitLoop ==
    /\ pc \in {"idle", "sleeping"}
    /\ ~running
    /\ pc' = "stopped"
    /\ UNCHANGED <<resp, suppress_arg, events, exc, created, engineVars, monitorVars,
                   fetchVars, historyVars, serverSide>>

\* run: the task is cancelled inside asyncio.sleep, "except CancelledError: break"
Cancel ==
    /\ pc = "sleeping"
    /\ pc' = "cancelled"
    /\ UNCHANGED <<resp, suppress_arg, events, exc, created, engineVars, monitorVars,
                   fetchVars, historyVars, serverSide>>

\* session.get of SUMMARY_URL answers or raises
SummaryResponse(r) ==
    /\ pc = "fetch_summary"
    /\ resp' = r
    /\ pc' = "got_summary"
    /\ UNCHANGED <<suppress_arg, events, exc, created, engineVars, monitorVars,
                   fetchVars, historyVars, serverSide>>

\* fetch returns; poll, from there to the second fetch's session.get; an exception
\* of process_summary leaves poll and is caught in run
HandleSummary ==
    /\ pc = "got_summary"
    /\ resp' = NoData
    /\ LET f == fetch(resp, summary_etag, summary_modified) IN
       /\ summary_etag' = f.etag
       /\ summary_modified' = f.modified
       /\ IF f.status = 200 /\ Truthy(f.data)
          THEN LET r == process_summary(component_statuses, component_names, f.data) IN
               /\ component_statuses' = r.statuses
               /\ component_names' = r.names
               /\ events' = events \o r.events
               /\ exc' = r.exc
               /\ created' = created \cup ((DOMAIN r.statuses) \ (DOMAIN component_statuses))
               /\ pc' = IF r.exc = "none" THEN "fetch_incidents" ELSE "poll_done"
               /\ req_headers' = IF r.exc = "none"
                                 THEN ConditionalHeaders(incidents_etag, incidents_modified)
                                 ELSE EmptyDict
          ELSE /\ pc' = "fetch_incidents"
               /\ req_headers' = ConditionalHeaders(incidents_etag, incidents_modified)
               /\ UNCHANGED <<component_statuses, component_names, events, exc, created>>
    /\ UNCHANGED <<suppress_arg, known_incidents, monitorVars, incidents_etag,
                   incidents_modified, historyVars, serverSide>>

\* session.get of INCIDENTS_URL answers or raises
IncidentsResponse(r) ==
    /\ pc = "fetch_incidents"
    /\ resp' = r
    /\ pc' = "got_incidents"
    /\ UNCHANGED <<suppress_arg, events, exc, created, engineVars, monitorVars,
                   fetchVars, historyVars, serverSide>>

\* fetch returns; poll, from there to its own return; an exception of
\* process_incidents leaves poll before first_run is cleared
HandleIncidents ==
    /\ pc = "got_incidents"
    /\ resp' = NoData
    /\ req_headers' = EmptyDict
    /\ pc' = "poll_done"
    /\ LET f == fetch(resp, incidents_etag, incidents_modified) IN
       /\ incidents_etag' = f.etag
       /\ incidents_modified' = f.modified
       /\ IF f.status = 200 /\ Truthy(f.data)
          THEN LET r == process_incidents(known_incidents, f.data, first_run) IN
               /\ known_incidents' = r.known
               /\ events' = events \o r.events
               /\ exc' = r.exc
               /\ created' = created \cup ((DOMAIN r.known) \ (DOMAIN known_incidents))
               /\ suppress_arg' = first_run
               /\ first_run' = IF r.exc = "none" THEN FALSE ELSE first_run
               /\ got_payload' = TRUE
          ELSE /\ first_run' = FALSE
               /\ UNCHANGED <<known_incidents, events, exc, created, suppress_arg,
                              got_payload>>
    /\ UNCHANGED <<component_statuses, component_names, interval, running, sleep_for,
                   summary_etag, summary_modified, reported, serverSide>>

\* run: "await asyncio.sleep(self.get_interval())"
Sleep ==
    /\ pc = "poll_done"
    /\ sleep_for' = get_interval(interval, known_incidents)
    /\ pc' = "sleeping"
    /\ UNCHANGED <<resp, suppress_arg, events, exc, created, engineVars,
                   interval, first_run, running, fetchVars, historyVars, serverSide>>

\* StatusPageMonitor.stop
Stop ==
    /\ running
    /\ running' = FALSE
    /\ UNCHANGED <<pc, resp, suppress_arg, events, exc, created, engineVars,
                   interval, first_run, sleep_for, fetchVars, historyVars, serverSide>>

Next ==
    \/ StartPoll
    \/ ExitLoop
    \/ Cancel
    \/ \E r \in PollSummaryResults : SummaryResponse(r)
    \/ HandleSummary
    \/ \E r \in PollIncidentsResults : IncidentsResponse(r)
    \/ HandleIncidents
    \/ Sleep
    \/ Stop

Spec == Init /\ [][Next]_vars

(* the same loop, fed answers that carry validator headers and the smallest
   documents *)

ValidatorValues == {"v1", "v2"}

ValidatorHeaders ==
    UNION {[S -> ValidatorValues] : S \in SUBSET {"ETag", "Last-Modified"}}

ValidatorResponses(body) ==
    {Response(st, IF st = 200 THEN body ELSE NoData, h) :
        st \in {200, 304, 500}, h \in ValidatorHeaders} \cup {TransportError}

NextValidators ==
    \/ StartPoll
    \/ ExitLoop
    \/ Cancel
    \/ \E r \in ValidatorResponses([components |-> <<>>]) : SummaryResponse(r)
    \/ HandleSummary
    \/ \E r \in ValidatorResponses([incidents |-> <<>>]) : IncidentsResponse(r)
    \/ HandleIncidents
    \/ Sleep
    \/ Stop

SpecValidators == Init /\ [][NextValidators]_vars

-----------------------------------------------------------------------------
(* src/server.py: poll_loop.  The lines of a change that poll_loop hands to push_log
   are recorded in sv_events as one record per change, with the ids of what the
   lines are about; what push_log does with a line is PushLine further down.  The
   "Loaded", "Tracking" and "Error" lines are not changes and are not recorded.
   poll_loop reads the fields id, status, name and created_at by subscript. *)

\* fetch_json: the document of a 200, None for any other status and for an exception
fetch_json(r) == IF r.kind = "response" /\ r.status = 200 THEN r.body ELSE NoData

\* "if summary", "if incidents_data": None and the empty object are falsy
SvTruthy(data) == data # NoData /\ data # EmptyDict

SvComponentChange(cid, name, old, new) ==
    [kind |-> "COMPONENT CHANGE", id |-> cid, name |-> name, old |-> old, new |-> new]

SvNewIncident(iid, name, impact, status) ==
    [kind |-> "NEW INCIDENT", id |-> iid, name |-> name, impact |-> impact,
     status |-> status]

SvUpdate(iid, name, uid, status, body, created_at) ==
    [kind |-> "UPDATE", id |-> iid, name |-> name, uid |-> uid, status |-> status,
     body |-> body, created_at |-> created_at]

\* "if summary and first_run": the statuses are loaded
RECURSIVE SvLoadComponentsFrom(_, _, _)
SvLoadComponentsFrom(statuses, comps, k) ==
    IF k > Len(comps) THEN statuses
    ELSE SvLoadComponentsFrom(Put(statuses, comps[k].id, comps[k].status), comps, k + 1)

\* "if old and old != comp["status"]"
SvStatusChanged(old, new) == old # None /\ old # "" /\ old # new

\* "if summary and not first_run": the statuses are diffed; st = [statuses, events]
RECURSIVE SvDiffComponentsFrom(_, _, _)
SvDiffComponentsFrom(st, comps, k) ==
    IF k > Len(comps) THEN st
    ELSE LET comp == comps[k]
             old == Get(st.statuses, comp.id, None)
             evs == IF SvStatusChanged(old, comp.status)
                    THEN Append(st.events,
                                SvComponentChange(comp.id, comp.name, old, comp.status))
                    ELSE st.events
         IN SvDiffComponentsFrom(
               [statuses |-> Put(st.statuses, comp.id, comp.status), events |-> evs],
               comps, k + 1)

\* mutant of SvAnnounces: new incidents are announced in the first iteration too
SvAnnouncesAlways(first) == TRUE

\* "if not first_run"
SvAnnounces(first) == ~first

\* the lines of the new updates, latest created_at string first
RECURSIVE SvUpdateEventsFrom(_, _, _, _)
SvUpdateEventsFrom(evs, inc, new_updates, k) ==
    IF k > Len(new_updates) THEN evs
    ELSE LET u == new_updates[k] IN
         SvUpdateEventsFrom(
            Append(evs, SvUpdate(inc.id, inc.name, u.id, Get(u, "status", ""),
                                 Get(u, "body", ""), u.created_at)),
            inc, new_updates, k + 1)

\* one iteration of "for inc in incidents_data.get("incidents", [])";
\* st = [known, events]
SvProcessIncident(st, inc, first) ==
    LET iid == inc.id
        updates == Get(inc, "incident_updates", <<>>)
        update_ids == {updates[k].id : k \in 1..Len(updates)}
    IN
    IF iid \notin DOMAIN st.known
    THEN [known |-> Put(st.known, iid,
                        [status |-> Get(inc, "status", ""), seen |-> update_ids]),
          events |-> IF SvAnnounces(first)
                     THEN Append(st.events,
                                 SvNewIncident(iid, inc.name, Get(inc, "impact", "none"),
                                               Get(inc, "status", "")))
                     ELSE st.events]
    ELSE LET known == st.known[iid]
             new_ids == update_ids \ known.seen
         IN IF new_ids = {} THEN st
            ELSE [known |-> Put(st.known, iid,
                                [status |-> Get(inc, "status", ""), seen |-> update_ids]),
                  events |-> SvUpdateEventsFrom(st.events, inc,
                                SortedByCreatedDesc(
                                   SelectSeq(updates, LAMBDA u : u.id \in new_ids)),
                                1)]

RECURSIVE SvProcessIncidentsFrom(_, _, _, _)
SvProcessIncidentsFrom(st, incs, first, k) ==
    IF k > Len(incs) THEN st
    ELSE SvProcessIncidentsFrom(SvProcessIncident(st, incs[k], first), incs, first, k + 1)

\* "has_active = any(...)", "15 if has_active else 60"
SvDelay(known) ==
    IF \E i \in DOMAIN known : known[i].status \notin {"resolved", "postmortem"}
    THEN 15 ELSE 60

\* "while True:" starts an iteration, up to the first "await fetch_json"
SvStartIteration ==
    /\ sv_pc \in {"idle", "sleeping"}
    /\ sv_pc' = "fetch_summary"
    /\ sv_events' = <<>>
    /\ sv_sleep' = 0
    /\ UNCHANGED <<sv_summary, sv_known, sv_components, sv_first_run, streamVars, cliSide>>

\* "summary = await fetch_json(session, SUMMARY_URL)" on the answer r
SvSummaryFetched(r) ==
    /\ sv_pc = "fetch_summary"
    /\ sv_summary' = fetch_json(r)
    /\ sv_pc' = "fetch_incidents"
    /\ UNCHANGED <<sv_known, sv_components, sv_first_run, sv_events, sv_sleep,
                   streamVars, cliSide>>

\* "incidents_data = await fetch_json(session, INCIDENTS_URL)" on the answer r, and
\* the rest of the iteration up to "await asyncio.sleep"
SvIncidentsFetched(r) ==
    /\ sv_pc = "fetch_incidents"
    /\ LET incidents_data == fetch_json(r)
           comps == Get(sv_summary, "components", <<>>)
           c == IF ~SvTruthy(sv_summary)
                THEN [statuses |-> sv_components, events |-> <<>>]
                ELSE IF sv_first_run
                THEN [statuses |-> SvLoadComponentsFrom(sv_components, comps, 1),
                      events |-> <<>>]
                ELSE SvDiffComponentsFrom(
                        [statuses |-> sv_components, events |-> <<>>], comps, 1)
           i == IF SvTruthy(incidents_data)
                THEN SvProcessIncidentsFrom(
                        [known |-> sv_known, events |-> c.events],
                        Get(incidents_data, "incidents", <<>>), sv_first_run, 1)
                ELSE [known |-> sv_known, events |-> c.events]
       IN /\ sv_components' = c.statuses
          /\ sv_known' = i.known
          /\ sv_events' = sv_events \o i.events
          /\ sv_sleep' = SvDelay(i.known)
    /\ sv_first_run' = FALSE
    /\ sv_summary' = NoData
    /\ sv_pc' = "sleeping"
    /\ UNCHANGED <<streamVars, cliSide>>

(* StatusPageMonitor.run and poll_loop given the same answers: each answer of the
   upstream is handed to both, poll_loop first *)

BothSummaryResults ==
    {Response(200, d, NoHeaders) : d \in SummaryPayloads({"c1"}, 1, {"API"})}
        \cup (SummaryFailures \ {Response(304, NoData, NoHeaders)})

BothIncidentsResults ==
    {Response(200, d, NoHeaders) : d \in PollIncidentPayloads}
        \cup (IncidentsFailures \ {Response(304, NoData, NoHeaders)})

BothStartPoll == sv_pc \in {"idle", "sleeping"} /\ StartPoll

BothStartIteration == pc = "fetch_summary" /\ SvStartIteration

BothSummaryResponse(r) == sv_pc = "fetch_summary" /\ SummaryResponse(r)

BothSummaryFetched == pc = "got_summary" /\ SvSummaryFetched(resp)

BothHandleSummary == sv_pc = "fetch_incidents" /\ HandleSummary

BothIncidentsFetched == pc = "got_incidents" /\ SvIncidentsFetched(resp)

BothHandleIncidents == sv_pc = "sleeping" /\ HandleIncidents

NextBoth ==
    \/ BothStartPoll
    \/ BothStartIteration
    \/ \E r \in BothSummaryResults : BothSummaryResponse(r)
    \/ BothSummaryFetched
    \/ BothHandleSummary
    \/ \E r \in BothIncidentsResults : IncidentsResponse(r)
    \/ BothIncidentsFetched
    \/ BothHandleIncidents
    \/ Sleep

SpecBoth == Init /\ [][NextBoth]_vars

-----------------------------------------------------------------------------
(* src/server.py: push_log and sse_handler.  Lines are named by their push order:
   line k is the k-th line handed to push_log.  A queue is named by the subscriber
   whose sse_handler created it.  sse_pc follows each handler through its awaits:
   prepare inside resp.prepare, replay inside the for loop over log_lines, live
   inside the while loop; failed when an exception left the handler, closed when
   it returned. *)

\* mutant of AppendLog: the newest line is dropped instead of the oldest
AppendLogDropsNewest(lines, line) ==
    LET l == Append(lines, line) IN
    IF Len(l) > LOG_LIMIT THEN SubSeq(l, 1, Len(l) - 1) ELSE l

\* "log_lines.append(line); if len(log_lines) > 500: log_lines.pop(0)"
AppendLog(lines, line) ==
    LET l == Append(lines, line) IN
    IF Len(l) > LOG_LIMIT THEN Tail(l) ELSE l

Registered(s) == \E k \in 1..Len(clients) : clients[k] = s

\* push_log(line), called by poll_loop; the list iterators of the running replay loops
\* keep their index
PushLine(max) ==
    /\ pushed < max
    /\ pushed' = pushed + 1
    /\ log_lines' = AppendLog(log_lines, pushed + 1)
    /\ queues' = [s \in Subscribers |->
                    IF Registered(s) THEN Append(queues[s], pushed + 1) ELSE queues[s]]
    /\ UNCHANGED <<clients, sse_pc, sse_idx, received, pollLoopVars, cliSide>>

\* sse_handler, up to "await resp.prepare(request)"
Connect(s) ==
    /\ sse_pc[s] = "none"
    /\ queues' = [queues EXCEPT ![s] = <<>>]
    /\ clients' = Append(clients, s)
    /\ sse_pc' = [sse_pc EXCEPT ![s] = "prepare"]
    /\ UNCHANGED <<log_lines, pushed, sse_idx, received, pollLoopVars, cliSide>>

\* resp.prepare returns: "for line in log_lines" creates its iterator
Prepared(s) ==
    /\ sse_pc[s] = "prepare"
    /\ sse_pc' = [sse_pc EXCEPT ![s] = "replay"]
    /\ sse_idx' = [sse_idx EXCEPT ![s] = 0]
    /\ UNCHANGED <<log_lines, clients, pushed, queues, received, pollLoopVars, cliSide>>

\* one turn of the replay loop: the iterator yields the element at its index, which
\* is written, or is exhausted and the handler enters the while loop
ReplayStep(s) ==
    /\ sse_pc[s] = "replay"
    /\ IF sse_idx[s] < Len(log_lines)
       THEN /\ received' = [received EXCEPT ![s] = Append(@, log_lines[sse_idx[s] + 1])]
            /\ sse_idx' = [sse_idx EXCEPT ![s] = @ + 1]
            /\ UNCHANGED sse_pc
       ELSE /\ sse_pc' = [sse_pc EXCEPT ![s] = "live"]
            /\ UNCHANGED <<received, sse_idx>>
    /\ UNCHANGED <<log_lines, clients, pushed, queues, pollLoopVars, cliSide>>

\* one turn of the while loop: "line = await q.get(); await resp.write(...)"
LiveStep(s) ==
    /\ sse_pc[s] = "live"
    /\ queues[s] # <<>>
    /\ received' = [received EXCEPT ![s] = Append(@, Head(queues[s]))]
    /\ queues' = [queues EXCEPT ![s] = Tail(@)]
    /\ UNCHANGED <<log_lines, clients, pushed, sse_pc, sse_idx, pollLoopVars, cliSide>>

\* "clients.remove(q)"
Remove(cl, s) ==
    LET k == CHOOSE j \in 1..Len(cl) : cl[j] = s /\ \A i \in 1..(j - 1) : cl[i] # s
    IN SubSeq(cl, 1, k - 1) \o SubSeq(cl, k + 1, Len(cl))

\* the connection ends while the handler is inside resp.prepare or a replay write:
\* CancelledError or ConnectionResetError is raised outside the try statement
FailBeforeTry(s) ==
    /\ \/ sse_pc[s] = "prepare"
       \/ sse_pc[s] = "replay" /\ Len(log_lines) > 0
    /\ sse_pc' = [sse_pc EXCEPT ![s] = "failed"]
    /\ UNCHANGED <<log_lines, clients, pushed, sse_idx, queues, received, pollLoopVars,
                   cliSide>>

\* the connection ends while the handler is inside the while loop: the exception is
\* caught and the finally clause runs
Disconnect(s) ==
    /\ sse_pc[s] = "live"
    /\ clients' = Remove(clients, s)
    /\ sse_pc' = [sse_pc EXCEPT ![s] = "closed"]
    /\ UNCHANGED <<log_lines, pushed, sse_idx, queues, received, pollLoopVars, cliSide>>

NextStream ==
    \/ PushLine(MaxStreamPushes)
    \/ \E s \in Subscribers : Connect(s)
    \/ \E s \in Subscribers : Prepared(s)
    \/ \E s \in Subscribers : ReplayStep(s)
    \/ \E s \in Subscribers : LiveStep(s)
    \/ \E s \in Subscribers : FailBeforeTry(s)
    \/ \E s \in Subscribers : Disconnect(s)

SpecStream == InitAdaptive /\ [][NextStream]_vars

(* push_log alone, for as many lines as overflow the buffer *)

NextLog == PushLine(MaxLogPushes)

SpecLog == InitAdaptive /\ [][NextLog]_vars

-----------------------------------------------------------------------------
(* Properties of process_incidents (checked under SpecIncidents) *)

Incs == Get(resp, "incidents", <<>>)

\* the positions in evs of the events of one kind about one id
EventsOf(evs, kind, id) == {k \in 1..Len(evs) : evs[k].kind = kind /\ evs[k].id = id}

\* the positions in evs of the IncidentUpdated events about update uid of incident id
UpdateEventsOf(evs, id, uid) == {k \in EventsOf(evs, "IncidentUpdated", id) : evs[k].uid = uid}

\* C1: the seen-update-id set of every tracked incident only grows: the set stored
\* after a call of process_incidents is a superset of the set stored before it.
C1_SeenOnlyGrows ==
    [][\A i \in DOMAIN known_incidents :
          /\ i \in DOMAIN known_incidents'
          /\ known_incidents[i].seen_update_ids \subseteq known_incidents'[i].seen_update_ids]_vars

\* C2: for an incident tracked with seen set S and delivered with update list U,
\* exactly one IncidentUpdated event is emitted per update id in ids(U) \ S, none
\* for an id in S, and the stored seen set afterwards is S \cup ids(U).
C2_KnownIncidentDiff ==
    [][pc = "process_incidents" =>
         \A k \in 1..Len(Incs) :
            Incs[k].id \in DOMAIN known_incidents =>
               LET id == Incs[k].id
                   S == known_incidents[id].seen_update_ids
                   U == UpdateIdSet(Incs[k].incident_updates)
               IN /\ \A u \in U \ S : Cardinality(UpdateEventsOf(events', id, u)) = 1
                  /\ \A u \in S : UpdateEventsOf(events', id, u) = {}
                  /\ known_incidents'[id].seen_update_ids = S \cup U]_vars

\* C3: an incident not yet tracked, processed with suppress=true, emits no event of
\* any kind, and afterwards has a record holding the delivered status and updated_at
\* and, as its seen set, the full set of update ids delivered for it.
C3_SuppressedNewIncident ==
    [][(pc = "process_incidents" /\ suppress_arg) =>
         \A k \in 1..Len(Incs) :
            Incs[k].id \notin DOMAIN known_incidents =>
               LET id == Incs[k].id IN
               /\ \A e \in 1..Len(events') : events'[e].id # id
               /\ id \in DOMAIN known_incidents'
               /\ known_incidents'[id] =
                     [updated_at |-> Incs[k].updated_at,
                      status |-> Incs[k].status,
                      seen_update_ids |-> UpdateIdSet(Incs[k].incident_updates)]]_vars

\* C3 witness: a suppressed call has just created the record of i1, with two update
\* ids recorded as seen, and emitted nothing.
C3_Witness ==
    /\ pc = "idle" /\ suppress_arg /\ created = {"i1"} /\ events = <<>>
    /\ known_incidents["i1"].seen_update_ids = {1, 2}
    /\ known_incidents["i1"].status = "investigating"

\* C4: an incident not yet tracked, processed with suppress=false, emits exactly one
\* IncidentOpened event carrying its name, impact, status and the body of the update
\* at index 0 of the delivered list (empty if the list is empty), emits no
\* IncidentUpdated event, and has all its delivered update ids recorded as seen.
C4_OpenedNewIncident ==
    [][(pc = "process_incidents" /\ ~suppress_arg) =>
         \A k \in 1..Len(Incs) :
            Incs[k].id \notin DOMAIN known_incidents =>
               LET id == Incs[k].id
                   ups == Incs[k].incident_updates
                   opened == EventsOf(events', "IncidentOpened", id)
               IN /\ Cardinality(opened) = 1
                  /\ \A e \in opened :
                        events'[e] = IncidentOpened(id, Incs[k].name, Incs[k].impact,
                                        Incs[k].status,
                                        IF Len(ups) = 0 THEN "" ELSE ups[1].body)
                  /\ EventsOf(events', "IncidentUpdated", id) = {}
                  /\ id \in DOMAIN known_incidents'
                  /\ known_incidents'[id].seen_update_ids = UpdateIdSet(ups)]_vars

\* C4 witness: an unsuppressed call has just opened i1, delivered with updates 3, 1 in
\* that order, and the event carries the body of update 3.
C4_Witness ==
    /\ pc = "idle" /\ ~suppress_arg /\ created = {"i1"}
    /\ known_incidents["i1"].seen_update_ids = {1, 3}
    /\ events = <<IncidentOpened("i1", "API errors", "major", "resolved", "b3")>>

\* C5: the IncidentUpdated events of one incident in one call are in descending order
\* of the instants their created_at strings denote.
C5_UpdatesDescendingByInstant ==
    [][pc = "process_incidents" =>
         \A a, b \in 1..Len(events') :
            (/\ a < b
             /\ events'[a].kind = "IncidentUpdated"
             /\ events'[b].kind = "IncidentUpdated"
             /\ events'[a].id = events'[b].id)
            => parse_ts(events'[a].created_at) >= parse_ts(events'[b].created_at)]_vars

\* C16: an incident already tracked and delivered with no update id outside its seen
\* set emits no event, and its stored record (status, updated_at, seen set) is
\* exactly as it was before the call, whatever status and updated_at are delivered.
C16_NoNewIdsNoChange ==
    [][pc = "process_incidents" =>
         \A k \in 1..Len(Incs) :
            (/\ Incs[k].id \in DOMAIN known_incidents
             /\ UpdateIdSet(Incs[k].incident_updates)
                   \subseteq known_incidents[Incs[k].id].seen_update_ids)
            => /\ \A e \in 1..Len(events') : events'[e].id # Incs[k].id
               /\ Incs[k].id \in DOMAIN known_incidents'
               /\ known_incidents'[Incs[k].id] = known_incidents[Incs[k].id]]_vars

\* C16 witness: process_incidents is running on a payload that delivers i1 as resolved
\* at t2 with update 1 only, while i1 is stored as investigating at t1 with updates 1
\* and 2 seen.
C16_Witness ==
    /\ pc = "process_incidents"
    /\ Incs = <<Incident("i1", "resolved", "t2", <<1>>)>>
    /\ "i1" \in DOMAIN known_incidents
    /\ known_incidents["i1"] =
          [updated_at |-> "t1", status |-> "investigating", seen_update_ids |-> {1, 2}]

\* C18: an update of an incident is reported at most once over the lifetime of the
\* process: no IncidentUpdated event is emitted for an <<incident, update>> pair that
\* an earlier call reported, nor twice in one call (checked under SpecHistory).
C18_ReportedAtMostOnce ==
    [][pc = "process_incidents" =>
         \A k \in 1..Len(events') :
            events'[k].kind = "IncidentUpdated" =>
               /\ <<events'[k].id, events'[k].uid>> \notin reported
               /\ Cardinality(UpdateEventsOf(events', events'[k].id, events'[k].uid)) = 1]_vars

-----------------------------------------------------------------------------
(* Properties of process_summary (checked under SpecSummary) *)

Comps == Get(resp, "components", <<>>)

\* C6: a component with no prior record emits no ComponentStatusChanged event in the
\* call that first observes it, and has a record with the delivered status afterwards.
C6_FirstObservedComponent ==
    [][pc = "process_summary" =>
         \A k \in 1..Len(Comps) :
            Comps[k].id \notin DOMAIN component_statuses =>
               /\ EventsOf(events', "ComponentStatusChanged", Comps[k].id) = {}
               /\ Comps[k].id \in DOMAIN component_statuses'
               /\ component_statuses'[Comps[k].id] = Comps[k].status]_vars

\* C6 witness: a call has just created the record of c1, in major_outage, silently.
C6_Witness ==
    /\ pc = "idle" /\ created = {"c1"} /\ events = <<>>
    /\ component_statuses["c1"] = "major_outage"

\* C7: a component recorded with status S and delivered with status S2 emits exactly
\* one ComponentStatusChanged event (old S, new S2, the delivered name) if S2 # S and
\* none if S2 = S; the stored status afterwards is S2.
C7_KnownComponentDiff ==
    [][pc = "process_summary" =>
         \A k \in 1..Len(Comps) :
            Comps[k].id \in DOMAIN component_statuses =>
               LET id == Comps[k].id
                   S == component_statuses[id]
                   S2 == Comps[k].status
                   evs == EventsOf(events', "ComponentStatusChanged", id)
               IN /\ S2 # S => /\ Cardinality(evs) = 1
                               /\ \A e \in evs :
                                     events'[e] = ComponentStatusChanged(id, Comps[k].name, S, S2)
                  /\ S2 = S => evs = {}
                  /\ component_statuses'[id] = S2]_vars

\* C7 witness: c1, recorded as operational, has just been delivered in major_outage
\* under a new name, and the one event carries that name.
C7_Witness ==
    /\ pc = "idle" /\ created = {}
    /\ events = <<ComponentStatusChanged("c1", "ChatGPT", "operational", "major_outage")>>
    /\ component_statuses["c1"] = "major_outage"
    /\ component_names["c1"] = "ChatGPT"

-----------------------------------------------------------------------------
(* Properties of get_interval (checked under SpecInterval) *)

\* C8: get_interval returns the fixed interval whenever one is configured; otherwise
\* ACTIVE_INTERVAL iff some tracked incident's stored status is neither resolved nor
\* postmortem, and CALM_INTERVAL otherwise (also when nothing is tracked); the call
\* changes no state of the monitor.
C8_GetInterval ==
    [][(pc = "idle" /\ pc' = "idle") =>
         /\ interval # NoInterval => sleep_for' = interval[1]
         /\ interval = NoInterval =>
               /\ sleep_for' \in {ACTIVE_INTERVAL, CALM_INTERVAL}
               /\ sleep_for' = ACTIVE_INTERVAL <=>
                     \E i \in DOMAIN known_incidents :
                        known_incidents[i].status \notin {"resolved", "postmortem"}
         /\ UNCHANGED <<interval, known_incidents, component_statuses, component_names,
                        first_run, running>>]_vars

\* C8 witness: adaptive mode, i1 stored as postmortem and i2 as investigating, and
\* get_interval has just returned the active interval.
C8_Witness ==
    /\ pc = "idle" /\ interval = NoInterval /\ sleep_for = ACTIVE_INTERVAL
    /\ DOMAIN known_incidents = {"i1", "i2"}
    /\ known_incidents["i1"].status = "postmortem"
    /\ known_incidents["i2"].status = "investigating"

-----------------------------------------------------------------------------
(* Properties of the polling loop (checked under Spec) *)

\* what fetch hands to poll for the incidents response in flight
IncidentsFetched == fetch(resp, incidents_etag, incidents_modified)

PollIncs == Get(IncidentsFetched.data, "incidents", <<>>)

\* this step is poll handling an incidents response that is a 200 with a body, and
\* process_incidents returns
IncidentsProcessed ==
    /\ pc = "got_incidents" /\ pc' = "poll_done"
    /\ IncidentsFetched.status = 200 /\ Truthy(IncidentsFetched.data)
    /\ exc' = "none"

\* the snapshot in hand delivers every incident tracked after the poll as resolved
\* or postmortem
AllTrackedDeliveredResolved ==
    \A i \in DOMAIN known_incidents' :
       \E k \in 1..Len(PollIncs) :
          PollIncs[k].id = i /\ PollIncs[k].status \in {"resolved", "postmortem"}

\* every incident tracked before the poll with an active stored status is delivered
\* with an update id outside its seen set
ActiveOnesDeliverNewIds ==
    \A i \in DOMAIN known_incidents :
       IsActive(known_incidents[i]) =>
          \E k \in 1..Len(PollIncs) :
             /\ PollIncs[k].id = i
             /\ UpdateIdSet(PollIncs[k].incident_updates)
                   \ known_incidents[i].seen_update_ids # {}

\* C9 as claimed: in adaptive mode, after a poll whose incidents snapshot was processed
\* and delivers every tracked incident as resolved or postmortem, get_interval
\* returns the calm interval, whether or not the snapshot added new update ids.
C9_CalmOnceAllDeliveredResolved ==
    [][(IncidentsProcessed /\ interval = NoInterval /\ AllTrackedDeliveredResolved) =>
         get_interval(interval', known_incidents') = CALM_INTERVAL]_vars

\* C9 amended: the same, provided every tracked incident whose stored status was
\* still active is delivered with at least one update id not yet seen.
C9_CalmOnceAllRefreshedResolved ==
    [][(/\ IncidentsProcessed /\ interval = NoInterval
        /\ AllTrackedDeliveredResolved /\ ActiveOnesDeliverNewIds) =>
         get_interval(interval', known_incidents') = CALM_INTERVAL]_vars

\* C9 witness: a poll after the first has just reported the update that resolved i1
\* while i2 was already tracked, and the loop sleeps for the calm interval.
C9_Witness ==
    /\ pc = "sleeping" /\ interval = NoInterval /\ sleep_for = CALM_INTERVAL
    /\ ~first_run /\ exc = "none" /\ created = {}
    /\ DOMAIN known_incidents = {"i1", "i2"}
    /\ \E e \in 1..Len(events) :
          /\ events[e].kind = "IncidentUpdated" /\ events[e].id = "i1"
          /\ known_incidents["i1"].status = "resolved"

\* the answer in flight is anything but a 200
NotA200 == resp.kind = "error" \/ resp.status # 200

\* C11: a transport or HTTP error on either fetch never stops the polling loop: poll
\* goes on to its next step, run then sleeps, and after the sleep another poll starts
\* as long as stop was not called; the loop ends only after stop() or by the
\* cancellation of its task.
C11_FetchErrorsNeverStopLoop ==
    /\ [][(pc \in {"got_summary", "got_incidents"} /\ pc' # pc /\ NotA200) =>
            /\ pc' = IF pc = "got_summary" THEN "fetch_incidents" ELSE "poll_done"
            /\ exc' = exc]_vars
    /\ [](pc = "poll_done" => ENABLED Sleep)
    /\ []((pc = "sleeping" /\ running) => ENABLED StartPoll)
    /\ [][(pc' \in {"stopped", "cancelled"} /\ pc' # pc) => (~running \/ Cancel)]_vars

\* C11 witness: the second poll of a run whose first poll processed no document is
\* handling a transport error of its incidents fetch, and stop was not called.
C11_Witness ==
    /\ pc = "got_incidents" /\ resp = TransportError /\ running
    /\ ~first_run /\ ~got_payload

\* C12: when a fetch yields anything other than a 200 (a 304, another status, a
\* transport error), poll does not run the diff of that endpoint: for the summary,
\* component_statuses and component_names are unchanged, for the incidents,
\* known_incidents is unchanged, and no change event is emitted.
C12_FailedFetchSkipsDiff ==
    [][/\ (pc = "got_summary" /\ pc' # pc /\ NotA200) =>
            /\ UNCHANGED <<component_statuses, component_names>>
            /\ events' = events
       /\ (pc = "got_incidents" /\ pc' # pc /\ NotA200) =>
            /\ UNCHANGED known_incidents
            /\ events' = events]_vars

\* C12 witness: after the first poll, poll is handling a 500 whose body delivers an
\* incident that is not tracked.
C12_Witness ==
    /\ pc = "got_incidents" /\ ~first_run
    /\ resp.kind = "response" /\ resp.status = 500
    /\ \E k \in 1..Len(resp.body.incidents) :
          resp.body.incidents[k].id \notin DOMAIN known_incidents

\* C19: no IncidentOpened event is emitted for an incident of the first incidents
\* document that poll processes, also when that document arrives in a later poll
\* because the incidents fetch of the first poll failed.
C19_FirstDocumentNeverOpens ==
    [][(/\ pc = "got_incidents" /\ pc' = "poll_done" /\ ~got_payload
        /\ IncidentsFetched.status = 200 /\ Truthy(IncidentsFetched.data)) =>
         \A e \in 1..Len(events') : events'[e].kind # "IncidentOpened"]_vars

\* C10: process_summary and process_incidents return normally on every payload, with
\* defaults for missing fields: no operation of the polling path raises.
C10_NeverRaises == exc = "none"

-----------------------------------------------------------------------------
(* Properties of the validators (checked under SpecValidators) *)

\* the value of a response header, or the prior value when the header is absent
HeaderOr(r, name, prior) == IF name \in DOMAIN r.headers THEN r.headers[name] ELSE prior

\* the conditional headers that replay a pair of validators
Replayed(etag, modified) ==
    [h \in (IF etag # None THEN {"If-None-Match"} ELSE {})
           \cup (IF modified # None THEN {"If-Modified-Since"} ELSE {})
       |-> IF h = "If-None-Match" THEN etag ELSE modified]

\* C17: on a 200 each validator of the endpoint becomes the value of the response
\* header, or stays at its prior value when the header is absent; on a 304, another
\* status or a transport error both are unchanged; the validators of one endpoint are
\* never changed by the fetch of the other, nor by any other step; and each request
\* carries the stored validators of its endpoint as conditional headers.
C17_Validators ==
    [][/\ (pc = "got_summary" /\ pc' # pc) =>
            /\ ~NotA200 => /\ summary_etag' = HeaderOr(resp, "ETag", summary_etag)
                           /\ summary_modified' =
                                 HeaderOr(resp, "Last-Modified", summary_modified)
            /\ NotA200 => UNCHANGED <<summary_etag, summary_modified>>
            /\ UNCHANGED <<incidents_etag, incidents_modified>>
            /\ pc' = "fetch_incidents" =>
                  req_headers' = Replayed(incidents_etag, incidents_modified)
       /\ (pc = "got_incidents" /\ pc' # pc) =>
            /\ ~NotA200 => /\ incidents_etag' = HeaderOr(resp, "ETag", incidents_etag)
                           /\ incidents_modified' =
                                 HeaderOr(resp, "Last-Modified", incidents_modified)
            /\ NotA200 => UNCHANGED <<incidents_etag, incidents_modified>>
            /\ UNCHANGED <<summary_etag, summary_modified>>
       /\ (pc' = "fetch_summary" /\ pc' # pc) =>
            req_headers' = Replayed(summary_etag, summary_modified)
       /\ (pc \notin {"got_summary", "got_incidents"} \/ pc' = pc) =>
            UNCHANGED validators]_vars

\* C17 witness: the incidents request is in flight with the one validator stored for
\* incidents, while the summary endpoint holds two other values.
C17_Witness ==
    /\ pc = "fetch_incidents"
    /\ summary_etag = "v1" /\ summary_modified = "v2"
    /\ incidents_etag = "v2" /\ incidents_modified = None
    /\ req_headers = [h \in {"If-None-Match"} |-> "v2"]

-----------------------------------------------------------------------------
(* Properties of the log buffer and of the stream (checked under SpecLog and
   SpecStream) *)

\* C13: a subscriber receives the lines buffered when it connected and then every
\* line pushed afterwards, each exactly once and in push order: the lines written to
\* it are consecutive, and once its queue is drained the last one is the last line
\* pushed.
C13_ExactlyOnceInOrder ==
    \A s \in Subscribers :
       /\ \A k \in 1..(Len(received[s]) - 1) : received[s][k + 1] = received[s][k] + 1
       /\ (sse_pc[s] = "live" /\ queues[s] = <<>> /\ pushed > 0) =>
             /\ received[s] # <<>>
             /\ received[s][Len(received[s])] = pushed

\* C14: the queue of a subscriber is no longer in clients once its handler has ended,
\* wherever the connection failed after the queue was appended.
C14_DeregisteredWhenEnded ==
    \A s \in Subscribers : sse_pc[s] \in {"failed", "closed"} => ~Registered(s)

\* C15: log_lines never holds more than LOG_LIMIT entries and always equals the most
\* recent min(n, LOG_LIMIT) of the n lines pushed so far, in push order.
C15_LogIsLastLines ==
    /\ Len(log_lines) = (IF pushed < LOG_LIMIT THEN pushed ELSE LOG_LIMIT)
    /\ \A k \in 1..Len(log_lines) : log_lines[k] = pushed - Len(log_lines) + k

\* C15 witness: two lines more than the buffer holds have been pushed, and the buffer
\* starts at the third.
C15_Witness ==
    /\ pushed = LOG_LIMIT + 2
    /\ Len(log_lines) = LOG_LIMIT
    /\ log_lines[1] = 3

-----------------------------------------------------------------------------
(* StatusPageMonitor against poll_loop (checked under SpecBoth) *)

\* what the claim compares of a change event: its kind, the id of the component or
\* incident, the old and new status (the status for an incident) and the update id
ObservedCli(e) ==
    IF e.kind = "ComponentStatusChanged" THEN <<"component", e.id, e.old, e.new, 0>>
    ELSE IF e.kind = "IncidentOpened" THEN <<"opened", e.id, "", e.status, 0>>
    ELSE <<"updated", e.id, "", e.status, e.uid>>

ObservedServer(e) ==
    IF e.kind = "COMPONENT CHANGE" THEN <<"component", e.id, e.old, e.new, 0>>
    ELSE IF e.kind = "NEW INCIDENT" THEN <<"opened", e.id, "", e.status, 0>>
    ELSE <<"updated", e.id, "", e.status, e.uid>>

\* C20: fed the same answers poll after poll (well-formed documents or failed
\* fetches, no 304), poll_loop and StatusPageMonitor.poll in adaptive mode emit the
\* same sequence of change events in every poll and sleep for the same interval
\* after it.
C20_SameEventsSameInterval ==
    (pc = "sleeping" /\ sv_pc = "sleeping") =>
       /\ [k \in 1..Len(events) |-> ObservedCli(events[k])]
             = [k \in 1..Len(sv_events) |-> ObservedServer(sv_events[k])]
       /\ sleep_for = sv_sleep

\* C20 witness: both have finished a poll after the first in which c1 went into
\* major_outage and an update of i1 was reported, and both sleep for the active
\* interval.
C20_Witness ==
    /\ pc = "sleeping" /\ sv_pc = "sleeping"
    /\ ~first_run /\ ~sv_first_run
    /\ Len(sv_events) = 2
    /\ sv_events[1].kind = "COMPONENT CHANGE" /\ sv_events[1].new = "major_outage"
    /\ sv_events[2].kind = "UPDATE" /\ sv_events[2].id = "i1"
    /\ sleep_for = ACTIVE_INTERVAL /\ sv_sleep = ACTIVE_INTERVAL

====
